---- MODULE Spec2Model ----
(***************************************************************************)
(* Model of pyvista's array validation engine                              *)
(* (src/pyvista/core/validation/validate.py): validate_array and the       *)
(* specialized validators that call it with locked keyword arguments.      *)
(*                                                                         *)
(* Numbers are integers counted in halves (2 is 1.0, 3 is 1.5, -1 is       *)
(* -0.5), so that a float with a fractional part, truncation by a cast to  *)
(* int and the boolean values False = 0 and True = 2 all exist.            *)
(* An array is a record [shape, dtype, data] with data in row-major order. *)
(* A keyword dictionary is a function from the keys that were passed to    *)
(* their values; a key that was not passed is not in its DOMAIN.           *)
(***************************************************************************)
EXTENDS Integers, Sequences, FiniteSets, TLC

VARIABLES
    pc,         \* position inside the call in progress
    fn,         \* the validator the caller invoked
    arg,        \* the caller's positional argument (array, num, rng)
    flags,      \* the validator's own keyword parameters (reshape, broadcast)
    kwargs_in,  \* **kwargs as the caller passed them
    kwargs,     \* keyword arguments received by validate_array
    array_out,  \* validate_array's local variable array_out
    result,     \* the returned object
    error,      \* the raised exception
    prev        \* the finished call the caller follows up with this call

vars == <<pc, fn, arg, flags, kwargs_in, kwargs, array_out, result, error,
          prev>>

(***************************************************************************)
(* Bounds of the exploration.                                              *)
(***************************************************************************)
MaxLen == 3     \* largest size of one dimension of an input
MaxSize == 3    \* largest number of elements of an input

(***************************************************************************)
(* Shape-like values.  Python tells the int 3, the tuple (3,) and the list *)
(* [(3,)] apart when it compares them, so a shape-like value keeps the     *)
(* form it was written in.                                                 *)
(***************************************************************************)
Item(isint, dims) == [isint |-> isint, dims |-> dims]
TInt(n) == [tag |-> "int", items |-> <<Item(TRUE, <<n>>)>>]
TTup(s) == [tag |-> "tuple", items |-> <<Item(FALSE, s)>>]
TList(xs) == [tag |-> "list", items |-> xs]
None == [tag |-> "None", items |-> <<>>]
NoneInt == -1   \* None for an integer-valued option (lengths are >= 0)

\* the tuple of dimensions a single shape-like value (int or tuple) denotes
Dims(s) == s.items[1].dims

RECURSIVE Prod(_)
Prod(s) == IF s = <<>> THEN 1 ELSE Head(s) * Prod(Tail(s))

RECURSIVE ProdKnown(_)
ProdKnown(s) ==
    IF s = <<>> THEN 1
    ELSE (IF Head(s) = -1 THEN 1 ELSE Head(s)) * ProdKnown(Tail(s))

Wild(s) == Cardinality({i \in 1..Len(s) : s[i] = -1})

(***************************************************************************)
(* Non-finite floats, and the integer a cast of one of them yields.        *)
(***************************************************************************)
PosInf == 1000
NegInf == -1000
NaN == 999
IntMin == -2000
IntMax == 2000

(***************************************************************************)
(* numpy: ndarray.reshape, numpy.broadcast_to, ndarray.astype              *)
(***************************************************************************)
\* reshape succeeds: at most one -1, and the element count is preserved
reshape_ok(shape, dims) ==
    /\ Wild(dims) <= 1
    /\ IF Wild(dims) = 0
       THEN Prod(dims) = Prod(shape)
       ELSE ProdKnown(dims) > 0 /\ Prod(shape) % ProdKnown(dims) = 0

reshape_shape(shape, dims) ==
    [i \in 1..Len(dims) |->
        IF dims[i] = -1 THEN Prod(shape) \div ProdKnown(dims) ELSE dims[i]]

\* broadcasting rule: trailing dimensions are equal or the source's is 1
broadcast_ok(shape, dims) ==
    /\ Len(dims) >= Len(shape)
    /\ \A i \in 1..Len(dims) : dims[i] >= 0
    /\ \A i \in 1..Len(shape) :
          LET t == dims[i + Len(dims) - Len(shape)]
          IN  shape[i] = t \/ shape[i] = 1

\* the product of the dimensions after position i (the stride of axis i)
RECURSIVE Stride(_, _)
Stride(shape, i) ==
    IF i >= Len(shape) THEN 1 ELSE shape[i + 1] * Stride(shape, i + 1)

\* index along axis i of the element at flat (row-major) position k, 0-based
AxisIndex(shape, i, k) == (k \div Stride(shape, i)) % shape[i]

\* flat position in the source of the element at flat position k of the view
RECURSIVE SourcePos(_, _, _, _)
SourcePos(shape, dims, k, i) ==
    IF i > Len(shape) THEN 0
    ELSE LET j == i + Len(dims) - Len(shape)
             ix == IF shape[i] = 1 THEN 0 ELSE AxisIndex(dims, j, k)
         IN  ix * Stride(shape, i) + SourcePos(shape, dims, k, i + 1)

broadcast_data(data, shape, dims) ==
    [k \in 1..Prod(dims) |-> data[SourcePos(shape, dims, k - 1, 1) + 1]]

\* the integers a C cast of a non-finite float can produce: the conversion is
\* undefined, the builds store the smallest integer, the largest one or 0
UndefinedCasts == {IntMin, IntMax, 0}

\* astype: a float is truncated toward zero by a cast to int, any nonzero
\* value (NaN and the infinities too) is True under a cast to bool; a
\* non-finite float has no integer value and the cast stores `undefined`
astype_value(v, dtype, undefined) ==
    CASE dtype = "int" ->
            IF v \in {PosInf, NegInf, NaN} THEN undefined
            ELSE IF v >= 0 THEN (v \div 2) * 2 ELSE -(((-v) \div 2) * 2)
      [] dtype = "bool" -> IF v # 0 THEN 2 ELSE 0
      [] OTHER -> v

(***************************************************************************)
(* Keyword arguments of validate_array and their defaults.                 *)
(***************************************************************************)
SortedBool(b) == [tag |-> "bool", on |-> b, ascending |-> TRUE, strict |-> FALSE]
SortedDict(asc, strict) ==
    [tag |-> "dict", on |-> TRUE, ascending |-> asc, strict |-> strict]

\* the defaults with reshape_to=-1 in the place of None: an array is flattened
\* unless the caller says otherwise
DefaultFlattens ==
    [must_have_shape |-> None,
     must_have_dtype |-> "None",
     must_have_length |-> NoneInt,
     must_have_min_length |-> NoneInt,
     must_have_max_length |-> NoneInt,
     must_be_nonnegative |-> FALSE,
     must_be_finite |-> FALSE,
     must_be_real |-> TRUE,
     must_be_integer |-> FALSE,
     must_be_sorted |-> [tag |-> "bool", on |-> FALSE, ascending |-> TRUE,
                         strict |-> FALSE],
     must_be_in_range |-> <<>>,
     strict_lower_bound |-> FALSE,
     strict_upper_bound |-> FALSE,
     reshape_to |-> [tag |-> "int",
                     items |-> <<[isint |-> TRUE, dims |-> <<-1>>]>>],
     broadcast_to |-> None,
     dtype_out |-> "None",
     as_any |-> TRUE,
     copy |-> FALSE,
     to_list |-> FALSE,
     to_tuple |-> FALSE,
     name |-> "Array"]

Default ==
    [must_have_shape |-> None,
     must_have_dtype |-> "None",
     must_have_length |-> NoneInt,
     must_have_min_length |-> NoneInt,
     must_have_max_length |-> NoneInt,
     must_be_nonnegative |-> FALSE,
     must_be_finite |-> FALSE,
     must_be_real |-> TRUE,
     must_be_integer |-> FALSE,
     must_be_sorted |-> SortedBool(FALSE),
     must_be_in_range |-> <<>>,
     strict_lower_bound |-> FALSE,
     strict_upper_bound |-> FALSE,
     reshape_to |-> None,
     broadcast_to |-> None,
     dtype_out |-> "None",
     as_any |-> TRUE,
     copy |-> FALSE,
     to_list |-> FALSE,
     to_tuple |-> FALSE,
     name |-> "Array"]

NoKwargs == [k \in {} |-> FALSE]

\* the value validate_array's parameter k is bound to
Param(kw, k) == IF k \in DOMAIN kw THEN kw[k] ELSE Default[k]

\* dict.setdefault(k, v)
setdefault(kw, k, v) == IF k \in DOMAIN kw THEN kw ELSE (k :> v) @@ kw

(***************************************************************************)
(* pyvista.core.validation._cast_array and pyvista.core.validation.check   *)
(***************************************************************************)
\* _cast_to_numpy: the canonical array of an input; it is the caller's own
\* object only for an ndarray input without copy
cast_to_numpy(a, copy) ==
    [shape |-> a.shape, dtype |-> a.dtype, data |-> a.data,
     owner |-> IF a.kind = "ndarray" /\ ~copy THEN "caller" ELSE "call",
     writeable |-> TRUE]

\* _cast_to_numpy raises TypeError for complex data when realness is required
cast_is_real(a) == a.dtype \in {"bool", "int", "float"}

\* check_subdtype: the dtype is a subtype of the declared family
check_subdtype(dtype, family) ==
    CASE family = "integer" -> dtype = "int"
      [] family = "floating" -> dtype = "float"
      [] family = "bool" -> dtype = "bool"
      [] OTHER -> dtype \in {"int", "float", "complex"}   \* "number"

\* a pattern compared literally, -1 being a size like any other
match_shape_literal(shape, dims) == shape = dims

\* one pattern matches a shape: same rank, every dimension equal or -1
match_shape(shape, dims) ==
    /\ Len(shape) = Len(dims)
    /\ \A i \in 1..Len(dims) : dims[i] = -1 \/ dims[i] = shape[i]

\* check_shape: the shape equals one of the declared patterns
check_shape(shape, spec) ==
    \E i \in 1..Len(spec.items) : match_shape(shape, spec.items[i].dims)

\* the length check_length measures: len(arr), a scalar counting as 1
length_of(shape) == IF shape = <<>> THEN 1 ELSE shape[1]

\* check_length with exact_length, min_length, max_length
check_length(shape, exact, min, max) ==
    /\ exact # NoneInt => length_of(shape) = exact
    /\ min # NoneInt => length_of(shape) >= min
    /\ max # NoneInt => length_of(shape) <= max

Range(f) == {f[i] : i \in DOMAIN f}

check_nonnegative(data) == \A v \in Range(data) : v # NaN /\ v >= 0

check_finite(data) == \A v \in Range(data) : v \notin {PosInf, NegInf, NaN}

\* check_integer: every element equals its own floor
check_integer(data) ==
    \A v \in Range(data) : v # NaN /\ (v \in {PosInf, NegInf} \/ v % 2 = 0)

check_range(data, rng, strict_lower, strict_upper) ==
    \A v \in Range(data) :
       /\ v # NaN
       /\ IF strict_lower THEN v > rng[1] ELSE v >= rng[1]
       /\ IF strict_upper THEN v < rng[2] ELSE v <= rng[2]

\* the flat positions of two neighbours along the last axis
LastAxisPairs(shape) ==
    IF shape = <<>> THEN {}
    ELSE {k \in 1..(Prod(shape) - 1) : k % shape[Len(shape)] # 0}

\* check_sorted along the last axis
check_sorted(arr, opt) ==
    \A k \in LastAxisPairs(arr.shape) :
       LET a == arr.data[k]
           b == arr.data[k + 1]
       IN  /\ a # NaN /\ b # NaN
           /\ CASE opt.ascending /\ opt.strict -> a < b
                [] opt.ascending /\ ~opt.strict -> a <= b
                [] ~opt.ascending /\ opt.strict -> a > b
                [] OTHER -> a >= b

\* _cast_to_tuple: a tuple at every nesting level, a number for a 0-d array
cast_to_tuple(arr) ==
    IF arr.shape = <<>>
    THEN [kind |-> "number", levels |-> <<>>, shape |-> <<>>,
          dtype |-> arr.dtype, data |-> arr.data,
          owner |-> "call", writeable |-> FALSE]
    ELSE [kind |-> "tuple", levels |-> [i \in 1..Len(arr.shape) |-> "tuple"],
          shape |-> arr.shape, dtype |-> arr.dtype, data |-> arr.data,
          owner |-> "call", writeable |-> FALSE]

\* ndarray.tolist: a list at every nesting level, a number for a 0-d array
tolist(arr) ==
    IF arr.shape = <<>>
    THEN [kind |-> "number", levels |-> <<>>, shape |-> <<>>,
          dtype |-> arr.dtype, data |-> arr.data,
          owner |-> "call", writeable |-> FALSE]
    ELSE [kind |-> "list", levels |-> [i \in 1..Len(arr.shape) |-> "list"],
          shape |-> arr.shape, dtype |-> arr.dtype, data |-> arr.data,
          owner |-> "call", writeable |-> TRUE]

\* the ndarray itself is returned
as_ndarray(arr) ==
    [kind |-> "ndarray", levels |-> <<>>, shape |-> arr.shape,
     dtype |-> arr.dtype, data |-> arr.data,
     owner |-> arr.owner, writeable |-> arr.writeable]

(***************************************************************************)
(* validate_array, one action per statement of its body                    *)
(***************************************************************************)
NoArray == [shape |-> <<>>, dtype |-> "None", data |-> <<>>,
            owner |-> "call", writeable |-> FALSE]
NoResult == [kind |-> "None", levels |-> <<>>, shape |-> <<>>, dtype |-> "None",
             data |-> <<>>, owner |-> "call", writeable |-> FALSE]
NoError == [type |-> "None", at |-> "None", has_name |-> FALSE]
NoArg == [kind |-> "None", levels |-> <<>>, shape |-> <<>>, dtype |-> "None",
          data |-> <<>>]
NoFlags == [reshape |-> FALSE, broadcast |-> FALSE]
NoCall == [arg |-> NoArg, result |-> NoResult, error |-> NoError,
           again |-> "None"]

\* the statements of validate_array with the shape check moved after the
\* transformations
StepsTransformFirst ==
    <<"cast", "dtype", "reshape", "broadcast", "shape", "length",
      "nonnegative", "finite", "integer", "range", "sorted", "astype",
      "return">>

\* the statements of validate_array with the cast to dtype_out moved before
\* the value checks
StepsCastFirst ==
    <<"cast", "dtype", "shape", "reshape", "broadcast", "length", "astype",
      "nonnegative", "finite", "integer", "range", "sorted", "return">>

\* the statements of validate_array with the finite check moved before the
\* nonnegative check
StepsFiniteFirst ==
    <<"cast", "dtype", "shape", "reshape", "broadcast", "length",
      "finite", "nonnegative", "integer", "range", "sorted", "astype",
      "return">>

Steps == <<"cast", "dtype", "shape", "reshape", "broadcast", "length",
           "nonnegative", "finite", "integer", "range", "sorted", "astype",
           "return">>

StepIndex(step) == CHOOSE i \in 1..Len(Steps) : Steps[i] = step

\* `array_out.shape != reshape_to`: a tuple differs from every int and list
shape_differs(shape, s) == ~(s.tag = "tuple" /\ Dims(s) = shape)

\* the condition of the `if` that guards a statement of validate_array
Guard(step, kw, arr) ==
    CASE step = "dtype" -> Param(kw, "must_have_dtype") # "None"
      [] step = "shape" -> Param(kw, "must_have_shape") # None
      [] step = "reshape" ->
            /\ Param(kw, "reshape_to") # None
            /\ shape_differs(arr.shape, Param(kw, "reshape_to"))
      [] step = "broadcast" ->
            /\ Param(kw, "broadcast_to") # None
            /\ shape_differs(arr.shape, Param(kw, "broadcast_to"))
      [] step = "length" ->
            \/ Param(kw, "must_have_length") # NoneInt
            \/ Param(kw, "must_have_min_length") # NoneInt
            \/ Param(kw, "must_have_max_length") # NoneInt
      [] step = "nonnegative" -> Param(kw, "must_be_nonnegative")
      [] step = "finite" -> Param(kw, "must_be_finite")
      [] step = "integer" -> Param(kw, "must_be_integer")
      [] step = "range" -> Param(kw, "must_be_in_range") # <<>>
      [] step = "sorted" -> Param(kw, "must_be_sorted").on
      [] step = "astype" -> Param(kw, "dtype_out") # "None"
      [] OTHER -> TRUE

\* the next statement that runs after `step`, the array being arr by then
NextStep(step, kw, arr) ==
    LET later == {i \in (StepIndex(step) + 1)..Len(Steps) : Guard(Steps[i], kw, arr)}
    IN  Steps[CHOOSE i \in later : \A j \in later : i <= j]

\* whether the message of the exception raised at `at` holds the caller's
\* `name`: every check of validate_array is called with name=name, while
\* ndarray.reshape and numpy.broadcast_to raise numpy's own message,
\* _set_default_kwarg_mandatory formats the key and the function's name only
\* and validate_arrayN_uintlike checks dtype_out without passing a name; in
\* validate_axes every message but the one about the number of arguments is
\* formatted with name
message_has_name(at) ==
    at \in {"cast", "dtype", "shape", "length", "nonnegative", "finite",
            "integer", "range", "sorted"}
           \cup {"orientation_arg", "coerce", "derive", "axes_finite",
                 "axes_parallel", "axes_zeros", "axes_orthogonal",
                 "axes_orientation"}

Error(type, at) ==
    [type |-> type, at |-> at, has_name |-> message_has_name(at)]

TransformValidators == {"validate_transform4x4", "validate_transform3x3"}

\* where control goes when validate_array returns or raises: back into the
\* try statement of a transform validator, to the caller otherwise
after_validate_array(f) == IF f \in TransformValidators THEN "transform" ELSE "done"

Raise(type) ==
    /\ pc' = after_validate_array(fn)
    /\ error' = Error(type, pc)
    /\ UNCHANGED <<fn, arg, flags, kwargs_in, kwargs, array_out, result, prev>>

\* a check passed: go on with the same array
Pass ==
    /\ pc' = NextStep(pc, kwargs, array_out)
    /\ UNCHANGED <<fn, arg, flags, kwargs_in, kwargs, array_out, result, error,
                   prev>>

\* a transformation applied in place: an array that is the caller's own
\* object takes the new shape, dtype and elements
ContinueInPlace(arr) ==
    /\ array_out' = arr
    /\ arg' = IF array_out.owner = "caller"
              THEN [arg EXCEPT !.shape = arr.shape, !.dtype = arr.dtype,
                               !.data = arr.data]
              ELSE arg
    /\ pc' = NextStep(pc, kwargs, arr)
    /\ UNCHANGED <<fn, flags, kwargs_in, kwargs, result, error, prev>>

\* a transformation was applied: go on with the new array
Continue(arr) ==
    /\ array_out' = arr
    /\ pc' = NextStep(pc, kwargs, arr)
    /\ UNCHANGED <<fn, arg, flags, kwargs_in, kwargs, result, error, prev>>

\* the first statement with a memory: it starts from the array the preceding
\* call returned, when there is one
CastRemembering ==
    /\ pc = "cast"
    /\ IF Param(kwargs, "must_be_real") /\ ~cast_is_real(arg)
       THEN Raise("TypeError")
       ELSE Continue(IF prev.result.kind = "ndarray"
                     THEN [shape |-> prev.result.shape,
                           dtype |-> prev.result.dtype,
                           data |-> prev.result.data,
                           owner |-> prev.result.owner,
                           writeable |-> prev.result.writeable]
                     ELSE cast_to_numpy(arg, Param(kwargs, "copy")))

Cast ==
    /\ pc = "cast"
    /\ IF Param(kwargs, "must_be_real") /\ ~cast_is_real(arg)
       THEN Raise("TypeError")
       ELSE Continue(cast_to_numpy(arg, Param(kwargs, "copy")))

CheckDtype ==
    /\ pc = "dtype"
    /\ IF check_subdtype(array_out.dtype, Param(kwargs, "must_have_dtype"))
       THEN Pass
       ELSE Raise("TypeError")

CheckShape ==
    /\ pc = "shape"
    /\ IF check_shape(array_out.shape, Param(kwargs, "must_have_shape"))
       THEN Pass
       ELSE Raise("ValueError")

Reshape ==
    /\ pc = "reshape"
    /\ LET dims == Dims(Param(kwargs, "reshape_to"))
       IN  IF reshape_ok(array_out.shape, dims)
           THEN Continue([array_out EXCEPT
                              !.shape = reshape_shape(array_out.shape, dims)])
           ELSE Raise("ValueError")

Broadcast ==
    /\ pc = "broadcast"
    /\ LET dims == Dims(Param(kwargs, "broadcast_to"))
       IN  IF broadcast_ok(array_out.shape, dims)
           THEN Continue([array_out EXCEPT
                              !.shape = dims,
                              !.data = broadcast_data(array_out.data,
                                                      array_out.shape, dims),
                              !.writeable = FALSE])
           ELSE Raise("ValueError")

\* the shape of the object validate_array hands to check_length
length_checked(a, arr) == a.shape

CheckLength ==
    /\ pc = "length"
    /\ IF check_length(length_checked(arg, array_out),
                       Param(kwargs, "must_have_length"),
                       Param(kwargs, "must_have_min_length"),
                       Param(kwargs, "must_have_max_length"))
       THEN Pass
       ELSE Raise("ValueError")

CheckNonnegative ==
    /\ pc = "nonnegative"
    /\ IF check_nonnegative(array_out.data) THEN Pass ELSE Raise("ValueError")

CheckFinite ==
    /\ pc = "finite"
    /\ IF check_finite(array_out.data) THEN Pass ELSE Raise("ValueError")

CheckInteger ==
    /\ pc = "integer"
    /\ IF check_integer(array_out.data) THEN Pass ELSE Raise("ValueError")

\* the check_range call with the two strictness flags handed over crosswise
range_holds_swapped(arr, kw) ==
    check_range(arr.data, Param(kw, "must_be_in_range"),
                Param(kw, "strict_upper_bound"),
                Param(kw, "strict_lower_bound"))

\* check_range(array_out, must_be_in_range, strict_lower=strict_lower_bound,
\* strict_upper=strict_upper_bound)
range_holds(arr, kw) ==
    check_range(arr.data, Param(kw, "must_be_in_range"),
                Param(kw, "strict_lower_bound"),
                Param(kw, "strict_upper_bound"))

CheckRange ==
    /\ pc = "range"
    /\ IF range_holds(array_out, kwargs)
       THEN Pass
       ELSE Raise("ValueError")

CheckSorted ==
    /\ pc = "sorted"
    /\ IF check_sorted(array_out, Param(kwargs, "must_be_sorted"))
       THEN Pass
       ELSE Raise("ValueError")

\* array_out.astype(dtype_out, copy=False): the same object when the dtype
\* already matches, a new array otherwise
astype(arr, dtype, undefined) ==
    IF arr.dtype = dtype THEN arr
    ELSE [arr EXCEPT !.dtype = dtype,
                     !.data = [k \in DOMAIN arr.data |->
                                  astype_value(arr.data[k], dtype, undefined)],
                     !.owner = "call",
                     !.writeable = TRUE]

Astype ==
    /\ pc = "astype"
    /\ \E undefined \in UndefinedCasts :
         Continue(astype(array_out, Param(kwargs, "dtype_out"), undefined))

\* the return statements with to_list tested before to_tuple
output_list_first(arr, to_list, to_tuple) ==
    IF to_list THEN tolist(arr)
    ELSE IF to_tuple THEN cast_to_tuple(arr)
    ELSE as_ndarray(arr)

\* the three return statements
output(arr, to_list, to_tuple) ==
    IF to_tuple THEN cast_to_tuple(arr)
    ELSE IF to_list THEN tolist(arr)
    ELSE as_ndarray(arr)

Return ==
    /\ pc = "return"
    /\ result' = output(array_out, Param(kwargs, "to_list"),
                        Param(kwargs, "to_tuple"))
    /\ pc' = after_validate_array(fn)
    /\ UNCHANGED <<fn, arg, flags, kwargs_in, kwargs, array_out, error, prev>>

\* the call is over; the engine keeps nothing of it
Reset ==
    /\ pc = "done"
    /\ pc' = "idle"
    /\ fn' = "None"
    /\ arg' = NoArg
    /\ flags' = NoFlags
    /\ kwargs_in' = NoKwargs
    /\ kwargs' = NoKwargs
    /\ array_out' = NoArray
    /\ result' = NoResult
    /\ error' = NoError
    /\ prev' = NoCall

Pipeline ==
    \/ Cast \/ CheckDtype \/ CheckShape \/ Reshape \/ Broadcast \/ CheckLength
    \/ CheckNonnegative \/ CheckFinite \/ CheckInteger \/ CheckRange
    \/ CheckSorted \/ Astype \/ Return \/ Reset

Init ==
    /\ pc = "idle"
    /\ fn = "None"
    /\ arg = NoArg
    /\ flags = NoFlags
    /\ kwargs_in = NoKwargs
    /\ kwargs = NoKwargs
    /\ array_out = NoArray
    /\ result = NoResult
    /\ error = NoError
    /\ prev = NoCall

(***************************************************************************)
(* _set_default_kwarg_mandatory and the specialized validators             *)
(***************************************************************************)
Lock(key, default) == [key |-> key, default |-> default]

\* the comparison left out: the caller's value is replaced without a word
lock_never_violated(kw, key, default) == FALSE

\* `val = kwargs.pop(key, default); if val != default: raise`
lock_violated(kw, key, default) == key \in DOMAIN kw /\ kw[key] # default

\* _set_default_kwarg_mandatory on a kwargs that passes: kwargs[key] = default
set_mandatory(kw, key, default) ==
    [k \in DOMAIN kw \cup {key} |-> IF k = key THEN default ELSE kw[k]]

\* the calls of _set_default_kwarg_mandatory of one validator, in order
RECURSIVE set_all_mandatory(_, _)
set_all_mandatory(kw, locks) ==
    IF locks = <<>> THEN kw
    ELSE set_all_mandatory(set_mandatory(kw, Head(locks).key, Head(locks).default),
                           Tail(locks))

Violations(kw, locks) ==
    {i \in 1..Len(locks) : lock_violated(kw, locks[i].key, locks[i].default)}

FirstViolation(kw, locks) ==
    CHOOSE i \in Violations(kw, locks) : \A j \in Violations(kw, locks) : i <= j

lock_error_TypeError == "TypeError"

\* the error _set_default_kwarg_mandatory raises
lock_error == "ValueError"

validate_number_defaults(kw) ==
    setdefault(setdefault(setdefault(setdefault(kw,
        "name", "Number"), "to_list", TRUE), "must_be_finite", TRUE),
        "must_be_real", TRUE)

validate_number_locks(fl) ==
    IF fl.reshape
    THEN <<Lock("reshape_to", TTup(<<>>)),
           Lock("must_have_shape",
                TList(<<Item(FALSE, <<>>), Item(FALSE, <<1>>)>>))>>
    ELSE <<Lock("must_have_shape", TTup(<<>>))>>

validate_data_range_defaults(kw) ==
    LET named == setdefault(kw, "name", "Data Range")
    IN  IF "to_list" \notin DOMAIN named
        THEN setdefault(named, "to_tuple", TRUE)
        ELSE named

\* the mandatory defaults without must_be_sorted
validate_data_range_locks_shape_only(fl) ==
    <<Lock("must_have_shape", TInt(2))>>

validate_data_range_locks(fl) ==
    <<Lock("must_have_shape", TInt(2)), Lock("must_be_sorted", SortedBool(TRUE))>>

validate_arrayNx3_locks(fl) ==
    IF fl.reshape
    THEN <<Lock("reshape_to", TTup(<<-1, 3>>)),
           Lock("must_have_shape",
                TList(<<Item(TRUE, <<3>>), Item(FALSE, <<-1, 3>>)>>))>>
    ELSE <<Lock("must_have_shape", TTup(<<-1, 3>>))>>

validate_arrayN_locks(fl) ==
    IF fl.reshape
    THEN <<Lock("reshape_to", TInt(-1)),
           Lock("must_have_shape",
                TList(<<Item(FALSE, <<>>), Item(TRUE, <<-1>>),
                        Item(FALSE, <<1, -1>>), Item(FALSE, <<-1, 1>>)>>))>>
    ELSE <<Lock("must_have_shape", TInt(-1))>>

validate_arrayN_uintlike_defaults(kw) == setdefault(kw, "dtype_out", "int")

\* `if kwargs['dtype_out'] is not int: check_subdtype(kwargs['dtype_out'], np.integer)`
uintlike_dtype_ok(kw) == kw["dtype_out"] = "int"

validate_arrayN_uintlike_locks(fl) ==
    <<Lock("must_be_integer", TRUE), Lock("must_be_nonnegative", TRUE)>>
        \o validate_arrayN_locks(fl)

\* the allowed shapes without the one `shape.append((1,))` adds
validate_array3_shape_without_1(fl) ==
    <<Item(FALSE, <<3>>)>>
        \o (IF fl.reshape THEN <<Item(FALSE, <<1, 3>>), Item(FALSE, <<3, 1>>)>>
            ELSE <<>>)
        \o (IF fl.broadcast THEN <<Item(FALSE, <<>>)>> ELSE <<>>)

validate_array3_shape(fl) ==
    <<Item(FALSE, <<3>>)>>
        \o (IF fl.reshape THEN <<Item(FALSE, <<1, 3>>), Item(FALSE, <<3, 1>>)>>
            ELSE <<>>)
        \o (IF fl.broadcast THEN <<Item(FALSE, <<>>), Item(FALSE, <<1>>)>>
            ELSE <<>>)

validate_array3_locks(fl) ==
    (IF fl.reshape THEN <<Lock("reshape_to", TInt(-1))>> ELSE <<>>)
        \o (IF fl.broadcast THEN <<Lock("broadcast_to", TTup(<<3>>))>> ELSE <<>>)
        \o <<Lock("must_have_shape", TList(validate_array3_shape(fl)))>>

\* a validator is entered with argument a, its own flags fl and **kwargs kw_in;
\* kw is kwargs after the setdefault calls, locks its mandatory defaults
Enter(f, a, fl, kw_in, kw, locks) ==
    /\ fn' = f
    /\ arg' = a
    /\ flags' = fl
    /\ kwargs_in' = kw_in
    /\ UNCHANGED <<array_out, result, prev>>
    /\ IF Violations(kw, locks) # {}
       THEN /\ pc' = "done"
            /\ error' = Error(lock_error,
                               locks[FirstViolation(kw, locks)].key)
            /\ kwargs' = NoKwargs
       ELSE /\ pc' = "cast"
            /\ error' = NoError
            /\ kwargs' = set_all_mandatory(kw, locks)

(***************************************************************************)
(* The calls that are explored: inputs and keyword dictionaries.           *)
(***************************************************************************)
Shapes ==
    {s \in {<<>>} \cup {<<a>> : a \in 0..MaxLen}
               \cup {<<a, b>> : a \in 0..MaxLen, b \in 0..MaxLen} :
        Prod(s) <= MaxSize}

Levels(kind, shape) ==
    IF kind \in {"list", "tuple"} THEN [i \in 1..Len(shape) |-> kind] ELSE <<>>

\* an input of the given container kind whose elements are start, start + step, ...
Input(kind, shape, dtype, start, step) ==
    [kind |-> kind, levels |-> Levels(kind, shape), shape |-> shape,
     dtype |-> dtype,
     data |-> [k \in 1..Prod(shape) |-> start + (k - 1) * step]]

Kinds(shape) ==
    IF shape = <<>> THEN {"number", "ndarray"} ELSE {"list", "tuple", "ndarray"}

\* inputs of every shape and container kind holding the integers 1, 2, 3, ...
ShapeInputs ==
    UNION {{Input(kind, shape, "int", 2, 2) : kind \in Kinds(shape)} :
              shape \in Shapes}

\* <<dtype, start, step>> of the value patterns
ValuePatterns ==
    {<<"int", -2, 2>>, <<"int", 6, -2>>, <<"float", 3, 1>>, <<"float", 2, 2>>,
     <<"float", -1, 0>>, <<"bool", 2, 0>>, <<"complex", 2, 0>>,
     <<"float", NaN, 0>>, <<"float", NegInf, 0>>, <<"float", PosInf, 0>>}

\* numbers and lists of 1, 2 and 3 elements holding every value pattern
ValueInputs ==
    {Input(IF n = 0 THEN "number" ELSE "list",
           IF n = 0 THEN <<>> ELSE <<n>>, p[1], p[2], p[3]) :
        n \in 0..3, p \in ValuePatterns}

Inputs == ShapeInputs \cup ValueInputs

Opt(key, values) == {NoKwargs} \cup {key :> v : v \in values}

LengthOpts ==
    Opt("must_have_length", {1, 3}) \cup Opt("must_have_min_length", {2})
        \cup Opt("must_have_max_length", {2})

ReshapeOpts == Opt("reshape_to", {TInt(-1), TTup(<<>>), TTup(<<1, 3>>)})

BroadcastOpts == Opt("broadcast_to", {TTup(<<3>>), TTup(<<2, 3>>), TInt(3)})

ShapeOpts ==
    Opt("must_have_shape",
        {TTup(<<3>>), TTup(<<1, 3>>), TInt(-1),
         TList(<<Item(FALSE, <<>>), Item(FALSE, <<1>>)>>)})

\* shape, transformation and length options
ShapeKwargs ==
    {a @@ b @@ c @@ d @@ e :
        a \in ShapeOpts, b \in ReshapeOpts, c \in BroadcastOpts,
        d \in LengthOpts, e \in Opt("must_have_dtype", {"floating"})}

\* output options
OutputKwargs ==
    {a @@ b @@ c @@ d :
        a \in Opt("dtype_out", {"int", "float", "bool"}),
        b \in Opt("to_list", {TRUE}), c \in Opt("to_tuple", {TRUE}),
        d \in Opt("reshape_to", {TTup(<<>>)})}

\* value options, in every combination
ValueKwargs ==
    {a @@ b @@ c @@ d @@ e :
        a \in Opt("must_be_nonnegative", {TRUE}),
        b \in Opt("must_be_finite", {TRUE}),
        c \in Opt("must_be_integer", {TRUE}),
        d \in Opt("must_be_in_range", {<<0, 4>>}),
        e \in Opt("must_be_sorted", {SortedBool(TRUE)})}
        \cup Opt("must_be_real", {FALSE})

\* a range with each setting of the two strictness flags
RangeKwargs ==
    {("must_be_in_range" :> r) @@ b @@ c :
        r \in {<<2, 4>>, <<0, 4>>},
        b \in Opt("strict_lower_bound", BOOLEAN),
        c \in Opt("strict_upper_bound", BOOLEAN)}

\* value options together with a cast of the output
CastKwargs ==
    {("dtype_out" :> d) @@ v : d \in {"int", "bool"}, v \in ValueKwargs}

ArrayKwargs ==
    ShapeKwargs \cup OutputKwargs \cup ValueKwargs \cup RangeKwargs
        \cup CastKwargs

CallValidateArray ==
    /\ pc = "idle"
    /\ \E a \in Inputs, kw \in ArrayKwargs :
           Enter("validate_array", a, NoFlags, kw, kw, <<>>)

\* the caller hands the array validate_array returned to validate_array
\* again, with the same keywords
Revalidate ==
    /\ pc = "done" /\ fn = "validate_array" /\ error = NoError
    /\ result.kind = "ndarray" /\ prev = NoCall
    /\ prev' = [arg |-> arg, result |-> result, error |-> error,
                again |-> "result"]
    /\ arg' = [kind |-> "ndarray", levels |-> <<>>, shape |-> result.shape,
               dtype |-> result.dtype, data |-> result.data]
    /\ pc' = "cast"
    /\ array_out' = NoArray
    /\ result' = NoResult
    /\ UNCHANGED <<fn, flags, kwargs_in, kwargs, error>>

\* the caller repeats a finished call of validate_array on the same input,
\* with the same keywords or with dtype_out left out
CallAgain ==
    /\ pc = "done" /\ fn = "validate_array" /\ prev = NoCall
    /\ \E without \in {{}, {"dtype_out"}} :
         /\ without \subseteq DOMAIN kwargs
         /\ prev' = [arg |-> arg, result |-> result, error |-> error,
                     again |-> IF without = {} THEN "same" ELSE "uncast"]
         /\ kwargs' = [k \in DOMAIN kwargs \ without |-> kwargs[k]]
         /\ kwargs_in' = kwargs'
    /\ pc' = "cast"
    /\ array_out' = NoArray
    /\ result' = NoResult
    /\ error' = NoError
    /\ UNCHANGED <<fn, arg, flags>>

\* one locked keyword passed by the caller
LockKwargs ==
    Opt("must_have_shape", {TInt(2), TTup(<<2>>), TTup(<<3>>), TTup(<<>>)})
        \cup Opt("reshape_to", {TInt(-1), TTup(<<-1>>), TTup(<<>>)})
        \cup Opt("broadcast_to", {TTup(<<3>>), TInt(3)})
        \cup Opt("must_be_sorted",
                 {SortedBool(TRUE), SortedBool(FALSE), SortedDict(FALSE, FALSE)})
        \cup Opt("must_be_integer", BOOLEAN)
        \cup Opt("must_be_nonnegative", BOOLEAN)

\* a locked keyword passed with exactly the value the validator locks it to
ExactKwargs(locks) == {locks[i].key :> locks[i].default : i \in 1..Len(locks)}

\* keywords a specialized validator forwards to validate_array
ForwardKwargs ==
    {a @@ b : a \in ReshapeOpts, b \in BroadcastOpts}
        \cup {a @@ b @@ c :
                 a \in Opt("dtype_out", {"int", "float", "bool"}),
                 b \in Opt("to_list", BOOLEAN), c \in Opt("to_tuple", {TRUE})}
        \cup ValueKwargs \cup LengthOpts

WrapperKwargs(locks) == LockKwargs \cup ExactKwargs(locks) \cup ForwardKwargs

ReshapeFlags == {[reshape |-> r, broadcast |-> FALSE] : r \in BOOLEAN}
ReshapeBroadcastFlags == [reshape : BOOLEAN, broadcast : BOOLEAN]

CallValidateNumber ==
    /\ pc = "idle"
    /\ \E a \in Inputs, fl \in ReshapeFlags :
         \E kw \in WrapperKwargs(validate_number_locks(fl)) :
           Enter("validate_number", a, fl, kw, validate_number_defaults(kw),
                 validate_number_locks(fl))

CallValidateDataRange ==
    /\ pc = "idle"
    /\ \E a \in Inputs :
         \E kw \in WrapperKwargs(validate_data_range_locks(NoFlags)) :
           Enter("validate_data_range", a, NoFlags, kw,
                 validate_data_range_defaults(kw),
                 validate_data_range_locks(NoFlags))

CallValidateArrayNx3 ==
    /\ pc = "idle"
    /\ \E a \in Inputs, fl \in ReshapeFlags :
         \E kw \in WrapperKwargs(validate_arrayNx3_locks(fl)) :
           Enter("validate_arrayNx3", a, fl, kw, kw, validate_arrayNx3_locks(fl))

CallValidateArrayN ==
    /\ pc = "idle"
    /\ \E a \in Inputs, fl \in ReshapeFlags :
         \E kw \in WrapperKwargs(validate_arrayN_locks(fl)) :
           Enter("validate_arrayN", a, fl, kw, kw, validate_arrayN_locks(fl))

CallValidateArrayNUintlike ==
    /\ pc = "idle"
    /\ \E a \in Inputs, fl \in ReshapeFlags :
         \E kw \in WrapperKwargs(validate_arrayN_uintlike_locks(fl)) :
           LET defaulted == validate_arrayN_uintlike_defaults(kw)
           IN  IF uintlike_dtype_ok(defaulted)
               THEN Enter("validate_arrayN_uintlike", a, fl, kw, defaulted,
                          validate_arrayN_uintlike_locks(fl))
               ELSE \* check_subdtype raises before any keyword is locked
                    /\ fn' = "validate_arrayN_uintlike"
                    /\ arg' = a
                    /\ flags' = fl
                    /\ kwargs_in' = kw
                    /\ kwargs' = NoKwargs
                    /\ pc' = "done"
                    /\ error' = Error("TypeError", "dtype_out")
                    /\ UNCHANGED <<array_out, result, prev>>

CallValidateArray3 ==
    /\ pc = "idle"
    /\ \E a \in Inputs, fl \in ReshapeBroadcastFlags :
         \E kw \in WrapperKwargs(validate_array3_locks(fl)) :
           Enter("validate_array3", a, fl, kw, kw, validate_array3_locks(fl))

(***************************************************************************)
(* validate_axes.  A coordinate is an integer in half-units like every     *)
(* other number; a normalized coordinate v / sqrt(d2) is kept as the pair  *)
(* of its integer numerator and the square d2 of its divisor, so that      *)
(* norms need no square root.  On the vectors explored two such values are *)
(* either equal or further apart than the tolerance of numpy.isclose, so   *)
(* isclose and allclose are equalities.                                    *)
(***************************************************************************)
Sign(x) == IF x > 0 THEN 1 ELSE IF x < 0 THEN -1 ELSE 0

\* sum of the products of the coordinates
Dot(a, b) == a[1] * b[1] + a[2] * b[2] + a[3] * b[3]

\* the determinants of the cross product
Cross(a, b) ==
    <<a[2] * b[3] - a[3] * b[2], a[3] * b[1] - a[1] * b[3],
      a[1] * b[2] - a[2] * b[1]>>

Neg(v) == <<-v[1], -v[2], -v[3]>>

\* numpy.cross of two vectors in half-units, in half-units
np_cross(a, b) == [k \in 1..3 |-> Cross(a, b)[k] \div 2]

\* numpy.isclose(numpy.dot(a, b), 1) of two vectors in half-units
dot_isclose_1(a, b) == Dot(a, b) = 4

\* row / numpy.linalg.norm(row): the row v in half-units is v / sqrt(v . v)
normalized(v) == [v |-> v, d2 |-> Dot(v, v)]

\* a row that is not normalized: v in half-units is v / sqrt(4)
plain(v) == [v |-> v, d2 |-> 4]

\* numpy.cross of two normalized rows
cross_norm(x, y) == [v |-> Cross(x.v, y.v), d2 |-> x.d2 * y.d2]

negated(x) == [x EXCEPT !.v = Neg(x.v)]

\* numpy.allclose of two scaled vectors: coordinate by coordinate the same
\* sign and the same square
allclose(x, y) ==
    \A k \in 1..3 :
       /\ Sign(x.v[k]) = Sign(y.v[k])
       /\ x.v[k] * x.v[k] * y.d2 = y.v[k] * y.v[k] * x.d2

\* the sign of numpy.dot of two scaled vectors
dot_sign(x, y) == Sign(Dot(x.v, y.v))

\* row i of a 3-column array
Row(arr, i) == <<arr.data[3 * i - 2], arr.data[3 * i - 1], arr.data[3 * i]>>

vstack(v0, v1, v2, dtype) ==
    [shape |-> <<3, 3>>, dtype |-> dtype, data |-> v0 \o v1 \o v2,
     owner |-> "call", writeable |-> TRUE]

\* the third vector always computed as vector0 x vector1
third_vector_right_only(v0, v1, orientation) == np_cross(v0, v1)

\* the third vector derived from two: vector0 x vector1 for 'right',
\* vector1 x vector0 otherwise
third_vector(v0, v1, orientation) ==
    IF orientation = "right" THEN np_cross(v0, v1) ELSE np_cross(v1, v0)

\* the shapes validate_axes accepts for a single array of row vectors
axes_array_shape == TList(<<Item(FALSE, <<2, 3>>), Item(FALSE, <<3, 3>>)>>)

\* the shapes validate_array3 accepts for one vector (reshape=True,
\* broadcast=False)
axes_vector_shape ==
    TList(validate_array3_shape([reshape |-> TRUE, broadcast |-> FALSE]))

\* the first positional argument that fails its validate_array3 call, 0 if none
FirstBadVector(args) ==
    LET bad == {i \in 1..Len(args) :
                   ~check_shape(args[i].shape, axes_vector_shape)}
    IN  IF bad = {} THEN 0 ELSE CHOOSE i \in bad : \A j \in bad : i <= j

\* the statements of validate_axes up to numpy.vstack: the orientation and the
\* number of arguments are checked, the arguments are coerced and a missing
\* third vector is derived
AxesEnter(args, fl) ==
    LET n == Len(args)
        o == fl.must_have_orientation
        rows == IF n = 1
                THEN [i \in 1..args[1].shape[1] |-> Row(args[1], i)]
                ELSE [i \in 1..n |-> args[i].data]
        dtype == IF n = 1 THEN "float" ELSE "int"
        raise(at) == pc' = "done" /\ error' = Error("ValueError", at)
                       /\ UNCHANGED array_out
    IN  /\ fn' = "validate_axes"
        /\ arg' = [NoArg EXCEPT !.kind = "axes", !.data = args]
        /\ flags' = fl
        /\ UNCHANGED <<kwargs_in, kwargs, result, prev>>
        /\ IF o \notin {"None", "right", "left"} THEN raise("orientation_arg")
           ELSE IF n \notin {1, 2, 3} THEN raise("num_args")
           ELSE IF n = 1 /\ ~check_shape(args[1].shape, axes_array_shape)
                THEN raise("coerce")
           ELSE IF n # 1 /\ FirstBadVector(args) # 0 THEN raise("coerce")
           ELSE IF Len(rows) = 2 /\ o = "None" THEN raise("derive")
           ELSE /\ array_out' =
                      vstack(rows[1], rows[2],
                             IF Len(rows) = 3 THEN rows[3]
                             ELSE third_vector(rows[1], rows[2], o), dtype)
                /\ pc' = "axes_finite"
                /\ error' = NoError

AxesPass(next) ==
    /\ pc' = next
    /\ UNCHANGED <<fn, arg, flags, kwargs_in, kwargs, array_out, result, error,
                   prev>>

AxesFinite ==
    /\ pc = "axes_finite"
    /\ IF check_finite(array_out.data)
       THEN AxesPass("axes_parallel")
       ELSE Raise("ValueError")

AxesParallel ==
    /\ pc = "axes_parallel"
    /\ IF \/ dot_isclose_1(Row(array_out, 1), Row(array_out, 2))
          \/ dot_isclose_1(Row(array_out, 1), Row(array_out, 3))
       THEN Raise("ValueError")
       ELSE AxesPass("axes_zeros")

AxesZeros ==
    /\ pc = "axes_zeros"
    /\ IF \E i \in 1..3 : Row(array_out, i) = <<0, 0, 0>>
       THEN Raise("ValueError")
       ELSE AxesPass("axes_orthogonal")

axes_norm(arr) == [i \in 1..3 |-> normalized(Row(arr, i))]

\* the condition the orthogonality check negates
orthogonal(arr) ==
    LET norm == axes_norm(arr)
        cross_0_1 == cross_norm(norm[1], norm[2])
        cross_1_2 == cross_norm(norm[2], norm[3])
    IN  /\ allclose(cross_0_1, norm[3]) \/ allclose(cross_0_1, negated(norm[3]))
        /\ allclose(cross_1_2, norm[1]) \/ allclose(cross_1_2, negated(norm[1]))

AxesOrthogonal ==
    /\ pc = "axes_orthogonal"
    /\ IF flags.must_be_orthogonal /\ ~orthogonal(array_out)
       THEN Raise("ValueError")
       ELSE AxesPass("axes_orientation")

\* `dot = np.dot(cross_0_1, axes_norm[2])`, by its sign
orientation_dot(arr) ==
    LET norm == axes_norm(arr)
    IN  dot_sign(cross_norm(norm[1], norm[2]), norm[3])

AxesOrientation ==
    /\ pc = "axes_orientation"
    /\ IF \/ flags.must_have_orientation = "right" /\ orientation_dot(array_out) < 0
          \/ flags.must_have_orientation = "left" /\ orientation_dot(array_out) > 0
       THEN Raise("ValueError")
       ELSE AxesPass("axes_return")

\* axes_norm or axes_array as the returned object, d2 holding the squared
\* divisor of each row
axes_result(arr, normalize) ==
    [d2 |-> [i \in 1..3 |-> IF normalize THEN normalized(Row(arr, i)).d2
                            ELSE plain(Row(arr, i)).d2]]
        @@ as_ndarray(IF normalize THEN [arr EXCEPT !.dtype = "float"] ELSE arr)

AxesReturn ==
    /\ pc = "axes_return"
    /\ result' = axes_result(array_out, flags.normalize)
    /\ pc' = "done"
    /\ UNCHANGED <<fn, arg, flags, kwargs_in, kwargs, array_out, error, prev>>

AxisCoords == {-2, 0, 2}

\* vectors with coordinates -1, 0, 1 of which at most two are not 0
AxisVectors ==
    {v \in AxisCoords \X AxisCoords \X AxisCoords :
        Cardinality({k \in 1..3 : v[k] # 0}) <= 2}

\* a vector of 2 elements and a vector that is not finite
OddVectors == {<<2, 0>>, <<PosInf, 0, 0>>}

Vec(v) == [shape |-> <<Len(v)>>, data |-> v]

Packed2(a, b) == [shape |-> <<2, 3>>, data |-> a \o b]

Packed3(a, b, c) == [shape |-> <<3, 3>>, data |-> a \o b \o c]

\* the tuples of positional arguments: two or three vectors, one array of two
\* or three rows, and tuples of 0, 1 and 4 vectors
AxesArgs ==
    {<<Vec(a), Vec(b)>> : a, b \in AxisVectors \cup OddVectors}
        \cup {<<Vec(a), Vec(b), Vec(c)>> : a, b, c \in AxisVectors \cup OddVectors}
        \cup {<<Packed2(a, b)>> : a, b \in AxisVectors}
        \cup {<<Packed3(a, b, c)>> : a, b, c \in AxisVectors}
        \cup {<<>>, <<Vec(<<2, 0, 0>>)>>,
              <<Vec(<<2, 0, 0>>), Vec(<<0, 2, 0>>), Vec(<<0, 0, 2>>),
                Vec(<<2, 0, 0>>)>>}

AxesFlags ==
    [normalize : BOOLEAN, must_be_orthogonal : BOOLEAN,
     must_have_orientation : {"right", "left", "None", "up"}]

CallValidateAxes ==
    /\ pc = "idle"
    /\ \E args \in AxesArgs, fl \in AxesFlags : AxesEnter(args, fl)

(***************************************************************************)
(* validate_transform4x4 and validate_transform3x3                         *)
(***************************************************************************)
\* a 3x3 array assigned into a 4x4 array of zeros
zeros_embed(m) ==
    [k \in 1..16 |->
        LET i == (k - 1) \div 4
            j == (k - 1) % 4
        IN  IF i < 3 /\ j < 3 THEN m[3 * i + j + 1] ELSE 0]

\* `array = np.eye(4); array[:3, :3] = m`, row-major, 1.0 being 2 half-units
eye_embed(m) ==
    [k \in 1..16 |->
        LET i == (k - 1) \div 4
            j == (k - 1) % 4
        IN  IF i < 3 /\ j < 3 THEN m[3 * i + j + 1]
            ELSE IF i = j THEN 2 ELSE 0]

\* a new float array of the given shape and elements
new_array(shape, data) ==
    [kind |-> "ndarray", levels |-> <<>>, shape |-> shape, dtype |-> "float",
     data |-> data, owner |-> "call", writeable |-> TRUE]

\* every matrix copied into np.eye(4), the validated 4x4 array included
transform_result_always_new(f, valid) ==
    IF f = "validate_transform4x4"
    THEN IF valid.shape = <<3, 3>>
         THEN new_array(<<4, 4>>, eye_embed(valid.data))
         ELSE new_array(<<4, 4>>, valid.data)
    ELSE valid

\* what the validator returns for the array validate_array returned: a 3x3
\* array is assigned into np.eye(4), any other is returned as it is
transform_result(f, valid) ==
    IF f = "validate_transform4x4" /\ valid.shape = <<3, 3>>
    THEN new_array(<<4, 4>>, eye_embed(valid.data))
    ELSE valid

\* the keywords of the validate_array call inside the try statement
transform_kwargs(f) ==
    IF f = "validate_transform4x4"
    THEN ("must_have_shape" :>
              TList(<<Item(FALSE, <<3, 3>>), Item(FALSE, <<4, 4>>)>>))
             @@ ("must_be_finite" :> TRUE)
    ELSE ("must_have_shape" :> TTup(<<3, 3>>))

\* the matrix classes the validator tests with isinstance
native_classes(f) ==
    IF f = "validate_transform4x4"
    THEN {"vtkMatrix4x4", "vtkMatrix3x3", "vtkTransform"}
    ELSE {"vtkMatrix3x3"}

\* lists and arrays of several shapes holding 1, 2, 3, ... (integers) or
\* 0.5, 1, 1.5, ... (floats), some with a first element that is not finite,
\* and complex ones
TransformArrays ==
    LET shapes == {<<3, 3>>, <<4, 4>>, <<4, 3>>, <<3>>}
        regular == {Input(kind, shape, p[1], p[2], p[2]) :
                     kind \in {"list", "ndarray"}, shape \in shapes,
                     p \in {<<"int", 2>>, <<"float", 1>>, <<"complex", 2>>}}
    IN  regular \cup {[a EXCEPT !.data[1] = v] :
                       a \in {b \in regular : b.dtype = "float"},
                       v \in {PosInf, NaN}}

\* the matrix objects of the classes the validator knows, and an object of
\* no known class, which numpy wraps in a 0-d array of dtype object
TransformObjects(f) ==
    {[kind |-> c, levels |-> <<>>,
      shape |-> IF c = "vtkMatrix3x3" THEN <<3, 3>> ELSE <<4, 4>>,
      dtype |-> "float",
      data |-> [k \in 1..(IF c = "vtkMatrix3x3" THEN 9 ELSE 16) |-> k]] :
        c \in native_classes(f)}
        \cup {[kind |-> "object", levels |-> <<>>, shape |-> <<>>,
               dtype |-> "object", data |-> <<0>>]}

\* the statements of a transform validator up to the validate_array call: a
\* matrix object is converted by _array_from_vtkmatrix at once
TransformEnter(f, a) ==
    IF a.kind \in native_classes(f)
    THEN /\ fn' = f
         /\ arg' = a
         /\ pc' = "done"
         /\ result' = IF a.shape = <<3, 3>> /\ f = "validate_transform4x4"
                       THEN new_array(<<4, 4>>, eye_embed(a.data))
                       ELSE new_array(a.shape, a.data)
         /\ UNCHANGED <<flags, kwargs_in, kwargs, array_out, error, prev>>
    ELSE Enter(f, a, NoFlags, NoKwargs, transform_kwargs(f), <<>>)

CallValidateTransform4x4 ==
    /\ pc = "idle"
    /\ \E a \in TransformArrays \cup TransformObjects("validate_transform4x4") :
         TransformEnter("validate_transform4x4", a)

CallValidateTransform3x3 ==
    /\ pc = "idle"
    /\ \E a \in TransformArrays \cup TransformObjects("validate_transform3x3") :
         TransformEnter("validate_transform3x3", a)

\* no except clause: the exception of validate_array reaches the caller
except_nothing(err) == err

\* `except ValueError: raise TypeError(...)`: a ValueError is replaced by a
\* TypeError with a fixed message, any other exception passes through
except_ValueError(err) ==
    IF err.type = "ValueError" THEN Error("TypeError", "transform") ELSE err

\* the rest of the try statement: the except clause, or the assignment of the
\* returned array
TransformReturn ==
    /\ pc = "transform"
    /\ pc' = "done"
    /\ error' = except_ValueError(error)
    /\ result' = IF error = NoError THEN transform_result(fn, result)
                 ELSE result
    /\ UNCHANGED <<fn, arg, flags, kwargs_in, kwargs, array_out, prev>>

Next ==
    \/ CallValidateArray
    \/ Revalidate
    \/ CallAgain
    \/ CallValidateNumber
    \/ CallValidateDataRange
    \/ CallValidateArrayNx3
    \/ CallValidateArrayN
    \/ CallValidateArrayNUintlike
    \/ CallValidateArray3
    \/ Pipeline

Spec == Init /\ [][Next]_vars

NextAxes ==
    \/ CallValidateAxes
    \/ AxesFinite \/ AxesParallel \/ AxesZeros \/ AxesOrthogonal
    \/ AxesOrientation \/ AxesReturn
    \/ Reset

\* the calls of validate_axes
SpecAxes == Init /\ [][NextAxes]_vars

NextTransform ==
    \/ CallValidateTransform4x4
    \/ CallValidateTransform3x3
    \/ Cast \/ CheckShape \/ CheckFinite \/ Return
    \/ TransformReturn
    \/ Reset

\* the calls of the transform validators
SpecTransform == Init /\ [][NextTransform]_vars

TypeOK ==
    /\ pc \in {"idle", "done"} \cup Range(Steps)
    /\ error.type \in {"None", "TypeError", "ValueError"}
    /\ (pc = "done") => (result = NoResult) # (error = NoError)

(***************************************************************************)
(* Vocabulary of the properties                                            *)
(***************************************************************************)
Wrappers ==
    {"validate_number", "validate_data_range", "validate_arrayNx3",
     "validate_arrayN", "validate_arrayN_uintlike", "validate_array3"}

LocksOf(f, fl) ==
    CASE f = "validate_number" -> validate_number_locks(fl)
      [] f = "validate_data_range" -> validate_data_range_locks(fl)
      [] f = "validate_arrayNx3" -> validate_arrayNx3_locks(fl)
      [] f = "validate_arrayN" -> validate_arrayN_locks(fl)
      [] f = "validate_arrayN_uintlike" -> validate_arrayN_uintlike_locks(fl)
      [] f = "validate_array3" -> validate_array3_locks(fl)
      [] OTHER -> <<>>

DefaultsOf(f, kw) ==
    CASE f = "validate_number" -> validate_number_defaults(kw)
      [] f = "validate_data_range" -> validate_data_range_defaults(kw)
      [] f = "validate_arrayN_uintlike" -> validate_arrayN_uintlike_defaults(kw)
      [] OTHER -> kw

LockedKeys(f, fl) == {LocksOf(f, fl)[i].key : i \in 1..Len(LocksOf(f, fl))}

AllLockedKeys ==
    {"must_have_shape", "reshape_to", "broadcast_to", "must_be_sorted",
     "must_be_integer", "must_be_nonnegative"}

\* the caller passed a locked keyword with a value that is not the locked one
Overridden ==
    \E i \in 1..Len(LocksOf(fn, flags)) :
       LET l == LocksOf(fn, flags)[i]
       IN  l.key \in DOMAIN kwargs_in /\ kwargs_in[l.key] # l.default

\* the caller passed a locked keyword with exactly the locked value
PassedExact ==
    \E i \in 1..Len(LocksOf(fn, flags)) :
       LET l == LocksOf(fn, flags)[i]
       IN  l.key \in DOMAIN kwargs_in /\ kwargs_in[l.key] = l.default

Omit(kw, keys) == [k \in DOMAIN kw \ keys |-> kw[k]]

Succeeded == pc = "done" /\ error = NoError
Failed == pc = "done" /\ error # NoError

\* validate_array has run, or skipped, the statement `step`
Past(step) ==
    \/ pc \in Range(Steps) /\ StepIndex(pc) > StepIndex(step)
    \/ Succeeded
    \/ /\ Failed
       /\ error.at \in Range(Steps)
       /\ StepIndex(error.at) > StepIndex(step)

\* array_out still holds the elements the value checks saw: the cast to
\* dtype_out has not run
Uncast ==
    \/ Param(kwargs, "dtype_out") = "None"
    \/ Failed
    \/ pc \in Range(Steps) /\ StepIndex(pc) <= StepIndex("astype")

LengthHolds(shape) ==
    check_length(shape, Param(kwargs, "must_have_length"),
                 Param(kwargs, "must_have_min_length"),
                 Param(kwargs, "must_have_max_length"))

(***************************************************************************)
(* Properties                                                              *)
(***************************************************************************)

\* C1: when a length constraint is declared, the call passes the length check
\* exactly when the array after reshape_to and broadcast_to (a scalar counting
\* as length 1) satisfies it.
C1_LengthOfTransformedArray ==
    (pc # "idle" /\ Guard("length", kwargs, array_out)) =>
        /\ (Failed /\ error.at = "length") => ~LengthHolds(array_out.shape)
        /\ Past("length") => LengthHolds(array_out.shape)

\* C2 as stated: an input whose own shape matches none of the declared
\* patterns makes the call fail with ValueError.
C2_ShapeMismatchIsValueError ==
    (pc = "done" /\ Param(kwargs, "must_have_shape") # None
        /\ ~check_shape(arg.shape, Param(kwargs, "must_have_shape")))
    => error.type = "ValueError"

\* C2 (amended): an input whose own shape matches none of the declared patterns
\* never passes, whatever reshape_to and broadcast_to would make of it: the
\* call fails with the ValueError of the shape check, unless the realness check
\* or the must_have_dtype check, which run first, already failed with TypeError.
C2_ShapeCheckedBeforeTransform ==
    (pc = "done" /\ Param(kwargs, "must_have_shape") # None
        /\ ~check_shape(arg.shape, Param(kwargs, "must_have_shape")))
    => \/ error.type = "ValueError" /\ error.at = "shape"
       \/ error.type = "TypeError" /\ error.at \in {"cast", "dtype"}

\* input (3,), must_have_shape=(1,3), reshape_to=(1,3): rejected by the shape check
C2_Witness ==
    /\ Failed /\ error.at = "shape"
    /\ arg.shape = <<3>>
    /\ Param(kwargs, "must_have_shape") = TTup(<<1, 3>>)
    /\ Param(kwargs, "reshape_to") = TTup(<<1, 3>>)

\* C3: a specialized validator called with a locked parameter set to another
\* value than the locked one raises and returns nothing, validate_array never
\* sees the caller's value nor a replacement; with exactly the locked value the
\* call hands validate_array the keyword arguments it hands over when the
\* parameter is omitted.
C3_LockedParameters ==
    (fn \in Wrappers) =>
        /\ Overridden => (Failed /\ result = NoResult /\ kwargs = NoKwargs)
        /\ (~Overridden /\ error.at \notin {"dtype_out"}) =>
              kwargs = set_all_mandatory(
                           DefaultsOf(fn, Omit(kwargs_in, LockedKeys(fn, flags))),
                           LocksOf(fn, flags))

C3_Witness ==
    /\ fn = "validate_array3" /\ flags.broadcast
    /\ "broadcast_to" \in DOMAIN kwargs_in
    /\ Overridden /\ Failed

\* C4 as stated: an attempt to override a locked parameter is a TypeError.
C4_OverrideIsTypeError ==
    (fn \in Wrappers /\ Failed /\ error.at \in AllLockedKeys)
    => error.type = "TypeError"

\* C4 (amended): an attempt to override a locked parameter of a specialized
\* validator is reported as a ValueError.
C4_OverrideIsValueError ==
    (fn \in Wrappers /\ Overridden /\ error.at \in AllLockedKeys)
    => error.type = "ValueError"

C4_Witness ==
    /\ fn = "validate_data_range" /\ Failed /\ error.at = "must_be_sorted"
    /\ kwargs_in["must_be_sorted"] = SortedBool(FALSE)

\* C5: every successful call of validate_array3 returns a one-dimensional
\* result with exactly 3 elements.
C5_Array3ReturnsShape3 ==
    (fn = "validate_array3" /\ Succeeded) => result.shape = <<3>>

\* C6: every successful call of validate_arrayN and validate_arrayN_uintlike
\* returns a one-dimensional array.
C6_ArrayNReturns1D ==
    (fn \in {"validate_arrayN", "validate_arrayN_uintlike"} /\ Succeeded)
    => Len(result.shape) = 1

\* C7: every successful call of validate_number returns one plain number,
\* never an array, list or tuple.
C7_NumberReturnsPlainNumber ==
    (fn = "validate_number" /\ Succeeded) => result.kind = "number"

\* C8: a 0-dimensional result of validate_array is a bare plain number in
\* every output mode, of type dtype_out when that is declared.
C8_ScalarResultIsPlainNumber ==
    (fn = "validate_array" /\ Succeeded /\ result.shape = <<>>) =>
        /\ result.kind = "number"
        /\ Param(kwargs, "dtype_out") # "None"
              => result.dtype = Param(kwargs, "dtype_out")

\* C9: validate_array with dtype_out and neither to_list nor to_tuple returns
\* the kind of container it was given: a list or tuple of depth 1 or 2 gives a
\* list or tuple, an ndarray or a deeper sequence gives an ndarray; the
\* elements have type dtype_out.
C9_ContainerKindPreserved ==
    (fn = "validate_array" /\ Succeeded
        /\ arg.kind \in {"list", "tuple", "ndarray"}
        /\ Param(kwargs, "dtype_out") # "None"
        /\ ~Param(kwargs, "to_list") /\ ~Param(kwargs, "to_tuple")) =>
        /\ result.dtype = Param(kwargs, "dtype_out")
        /\ result.kind = IF arg.kind = "ndarray" \/ Len(arg.shape) >= 3
                         THEN "ndarray" ELSE arg.kind

C11_RangeInclusiveUnlessStrict ==
    LET rng == Param(kwargs, "must_be_in_range")
        within(v) ==
            /\ v # NaN
            /\ rng[1] <= v /\ v <= rng[2]
            /\ Param(kwargs, "strict_lower_bound") => v # rng[1]
            /\ Param(kwargs, "strict_upper_bound") => v # rng[2]
    IN  (rng # <<>> /\ Uncast) =>
            /\ Past("range") => \A v \in Range(array_out.data) : within(v)
            /\ (Failed /\ error.at = "range") =>
                   /\ error.type = "ValueError"
                   /\ \E v \in Range(array_out.data) : ~within(v)

\* an array inside [lo, hi] with an element equal to lo is rejected because
\* of strict_lower_bound alone
C11_Witness ==
    LET rng == Param(kwargs, "must_be_in_range")
    IN  /\ Failed /\ error.at = "range" /\ error.type = "ValueError"
        /\ Param(kwargs, "strict_lower_bound")
        /\ ~Param(kwargs, "strict_upper_bound")
        /\ \A v \in Range(array_out.data) : rng[1] <= v /\ v <= rng[2]
        /\ \E v \in Range(array_out.data) : v = rng[2]

\* C12: a plain call of validate_array3 on a real scalar or a real 1-element
\* one-dimensional input v returns the array [v, v, v] when broadcast=True,
\* with reshape=True and with reshape=False alike, and is rejected with
\* ValueError when broadcast=False.
C12_Array3BroadcastsOneElement ==
    (/\ fn = "validate_array3" /\ pc = "done" /\ kwargs_in = NoKwargs
     /\ arg.shape \in {<<>>, <<1>>} /\ cast_is_real(arg))
    => IF flags.broadcast
       THEN /\ Succeeded
            /\ result.kind = "ndarray"
            /\ result.shape = <<3>>
            /\ result.data = <<arg.data[1], arg.data[1], arg.data[1]>>
       ELSE Failed /\ error.type = "ValueError"

\* validate_array3([v], reshape=False, broadcast=True) returned [v, v, v]
C12_Witness ==
    /\ fn = "validate_array3" /\ Succeeded /\ kwargs_in = NoKwargs
    /\ flags.broadcast /\ ~flags.reshape
    /\ arg.shape = <<1>> /\ arg.kind = "list"
    /\ result.data = <<arg.data[1], arg.data[1], arg.data[1]>>

\* validate_axes was given two vectors only, as two arguments or as one array
\* of two rows, and has built axes_array from them
TwoVectorsGiven ==
    /\ fn = "validate_axes" /\ array_out # NoArray
    /\ \/ Len(arg.data) = 2
       \/ Len(arg.data) = 1 /\ arg.data[1].shape = <<2, 3>>

\* the i-th vector the caller gave
Given(i) ==
    IF Len(arg.data) = 1 THEN Row(arg.data[1], i) ELSE arg.data[i].data

\* C13: given two vectors a and b only, validate_axes takes a x b as the third
\* row for 'right' and b x a for 'left'; the frame so derived never fails the
\* orientation check; validate_axes([1,0,0], [0,1,0]) returns the rows
\* [1,0,0], [0,1,0], [0,0,1], and [0,0,-1] as the third row for 'left'.
C13_ThirdAxisIsCrossProduct ==
    TwoVectorsGiven =>
        LET a == Given(1)
            b == Given(2)
            right == flags.must_have_orientation = "right"
        IN  /\ Row(array_out, 1) = a /\ Row(array_out, 2) = b
            /\ \A k \in 1..3 :
                 2 * Row(array_out, 3)[k] =
                     IF right THEN Cross(a, b)[k] ELSE Cross(b, a)[k]
            /\ ~(Failed /\ error.at = "axes_orientation")
            /\ Succeeded => result.data = array_out.data
            /\ (pc = "done" /\ a = <<2, 0, 0>> /\ b = <<0, 2, 0>>) =>
                   /\ Succeeded
                   /\ result.data =
                         <<2, 0, 0, 0, 2, 0, 0, 0, IF right THEN 2 ELSE -2>>
                   /\ result.d2 = <<4, 4, 4>>

\* validate_axes([1,0,0], [0,1,0], must_have_orientation='left') returned the
\* normalized rows [1,0,0], [0,1,0], [0,0,-1]
C13_Witness ==
    /\ TwoVectorsGiven /\ Succeeded /\ Len(arg.data) = 2
    /\ Given(1) = <<2, 0, 0>> /\ Given(2) = <<0, 2, 0>>
    /\ flags.must_have_orientation = "left" /\ flags.normalize
    /\ Row(result, 3) = <<0, 0, -2>> /\ result.d2[3] = 4

\* validate_axes has built axes_array and its elements are finite
AxesBuilt ==
    fn = "validate_axes" /\ array_out # NoArray /\ check_finite(array_out.data)

ZeroRow(i) == Row(array_out, i) = <<0, 0, 0>>

\* rows i and j are non-zero multiples of each other
ParallelRows(i, j) ==
    /\ ~ZeroRow(i) /\ ~ZeroRow(j)
    /\ Cross(Row(array_out, i), Row(array_out, j)) = <<0, 0, 0>>

\* (row0 x row1) . row2
TripleProduct == Dot(Cross(Row(array_out, 1), Row(array_out, 2)), Row(array_out, 3))

\* C14: validate_axes fails with ValueError whenever two of the three vectors
\* are parallel, for each of the pairs (0,1), (0,2), (1,2), and whenever a
\* vector is zero, whatever normalize, must_be_orthogonal and
\* must_have_orientation are and whatever the lengths of the vectors.
C14_ParallelOrZeroRejected ==
    (/\ AxesBuilt /\ pc = "done"
     /\ \/ \E i \in 1..3 : ZeroRow(i)
        \/ ParallelRows(1, 2) \/ ParallelRows(1, 3) \/ ParallelRows(2, 3))
    => Failed /\ error.type = "ValueError"

\* C15: when validate_axes succeeds with 'right' the triple product
\* (row0 x row1) . row2 is strictly positive, with 'left' strictly negative,
\* and a frame whose triple product has not the sign of the requested
\* orientation, 0 included, is rejected with ValueError.  Stated for frames
\* without a zero row or a parallel pair.
C15_OrientationIsStrict ==
    (/\ AxesBuilt /\ pc = "done"
     /\ \A i \in 1..3 : ~ZeroRow(i)
     /\ ~ParallelRows(1, 2) /\ ~ParallelRows(1, 3) /\ ~ParallelRows(2, 3))
    => /\ (Succeeded /\ flags.must_have_orientation = "right") => TripleProduct > 0
       /\ (Succeeded /\ flags.must_have_orientation = "left") => TripleProduct < 0
       /\ (\/ flags.must_have_orientation = "right" /\ TripleProduct <= 0
           \/ flags.must_have_orientation = "left" /\ TripleProduct >= 0)
          => Failed /\ error.type = "ValueError"

\* C16: a plain call of validate_data_range on a real input raises ValueError
\* when the input is the pair (a, b) with a > b, returns the tuple (a, b)
\* when a <= b, and raises ValueError when the input is not one-dimensional
\* with exactly 2 elements.
C16_DataRangeIsSortedPair ==
    (/\ fn = "validate_data_range" /\ pc = "done" /\ kwargs_in = NoKwargs
     /\ cast_is_real(arg) /\ NaN \notin Range(arg.data))
    => IF arg.shape # <<2>> THEN Failed /\ error.type = "ValueError"
       ELSE IF arg.data[1] > arg.data[2]
            THEN Failed /\ error.type = "ValueError" /\ error.at = "sorted"
            ELSE /\ Succeeded
                 /\ result.kind = "tuple"
                 /\ result.shape = <<2>>
                 /\ result.data = arg.data

\* validate_data_range on a descending pair failed in the sortedness check
C16_Witness ==
    /\ fn = "validate_data_range" /\ kwargs_in = NoKwargs
    /\ arg.shape = <<2>> /\ cast_is_real(arg)
    /\ NaN \notin Range(arg.data) /\ arg.data[1] > arg.data[2]
    /\ Failed /\ error.type = "ValueError" /\ error.at = "sorted"

\* every element is non-negative and equal to its own floor
WholeNonnegative(data) ==
    \A v \in Range(data) :
       v # NaN /\ v >= 0 /\ (v \in {PosInf, NegInf} \/ v % 2 = 0)

\* C17: a plain call of validate_arrayN_uintlike on a real input succeeds
\* exactly when the input has an accepted shape and every element is
\* non-negative and equal to its own floor; the result is then a
\* one-dimensional integer array holding the same values; an input of accepted
\* shape with a negative or fractional element raises ValueError in the
\* non-negativity or the integer check, before the cast to integer.
C17_UintlikeKeepsWholeValues ==
    (/\ fn = "validate_arrayN_uintlike" /\ pc = "done" /\ kwargs_in = NoKwargs
     /\ cast_is_real(arg))
    => LET accepted ==
               check_shape(arg.shape, Param(kwargs, "must_have_shape"))
       IN  /\ Succeeded <=> (accepted /\ WholeNonnegative(arg.data))
           /\ Succeeded =>
                  /\ result.kind = "ndarray"
                  /\ result.dtype = "int"
                  /\ Len(result.shape) = 1
                  /\ result.data = arg.data
           /\ (accepted /\ ~WholeNonnegative(arg.data)) =>
                  /\ Failed /\ error.type = "ValueError"
                  /\ error.at \in {"nonnegative", "integer"}
                  /\ array_out.dtype = arg.dtype

\* the call in progress validates the result of an earlier call again
Second == prev.again = "result"

\* two arrays of the same shape holding the same elements
SameArray(x, y) == x.shape = y.shape /\ x.data = y.data

\* the keywords that transform the array
Transformations == {"reshape_to", "broadcast_to", "dtype_out"}

\* C18: whenever validate_array succeeds and returns an array A, a second
\* call on A with the same keywords raises nothing and returns an array equal
\* to A.
C18_Idempotent ==
    (Second /\ pc = "done") => Succeeded /\ SameArray(result, prev.result)

\* C18 as amended: the same for the calls that pass none of reshape_to,
\* broadcast_to and dtype_out.
C18_IdempotentWithoutTransformation ==
    (Second /\ pc = "done" /\ DOMAIN kwargs \cap Transformations = {})
    => Succeeded /\ SameArray(result, prev.result)

\* a list that passed a shape check came back as an array, and that array
\* passed the same call again
C18_Witness ==
    /\ Second /\ Succeeded /\ DOMAIN kwargs \cap Transformations = {}
    /\ prev.arg.kind = "list" /\ "must_have_shape" \in DOMAIN kwargs
    /\ SameArray(result, prev.result)

\* the input's shape has the rank of the pattern and its size in every
\* dimension the pattern does not leave open with -1
Fits(dims) ==
    /\ Len(arg.shape) = Len(dims)
    /\ \A i \in 1..Len(dims) : dims[i] # -1 => arg.shape[i] = dims[i]

\* C19: an array passes the must_have_shape check exactly when one of the
\* declared patterns has its number of dimensions and its size in every
\* dimension that is not the wildcard -1, whatever the sizes, 0 included, in
\* the wildcard dimensions; with a list of patterns one match is enough, and
\* without a match the check raises ValueError.
C19_WildcardShape ==
    LET patterns == Param(kwargs, "must_have_shape").items
        matched == \E i \in 1..Len(patterns) : Fits(patterns[i].dims)
    IN  (fn # "validate_axes" /\ Param(kwargs, "must_have_shape") # None) =>
            /\ Past("shape") => matched
            /\ (Failed /\ error.at = "shape") =>
                   error.type = "ValueError" /\ ~matched
            /\ (pc = "shape") => array_out.shape = arg.shape

\* an input whose size is 0 in a wildcard dimension passed the shape check
\* against a list of patterns
C19_Witness ==
    LET spec == Param(kwargs, "must_have_shape")
    IN  /\ spec # None /\ spec.tag = "list" /\ Len(spec.items) > 1
        /\ Past("shape") /\ Succeeded
        /\ \E i \in 1..Len(spec.items) :
              /\ Fits(spec.items[i].dims)
              /\ \E k \in 1..Len(arg.shape) :
                    spec.items[i].dims[k] = -1 /\ arg.shape[k] = 0

\* C20: the message of every TypeError and ValueError a validator raises
\* holds the name the caller supplied, the errors about a locked keyword and
\* about the number of axes arguments included.
C20_ErrorsCarryName == Failed => error.has_name

\* C21: every successful call of validate_transform4x4 returns an array of
\* shape (4, 4); for a 3x3 input, array-like or matrix object, the result has
\* the input in its top-left 3x3 block and the entries of the 4x4 identity
\* elsewhere; for a 4x4 input the result has the 16 entries of the input.
C21_Transform4x4Embeds3x3 ==
    (fn = "validate_transform4x4" /\ Succeeded) =>
        /\ result.shape = <<4, 4>>
        /\ arg.shape \in {<<3, 3>>, <<4, 4>>}
        /\ arg.shape = <<4, 4>> => result.data = arg.data
        /\ arg.shape = <<3, 3>> =>
               \A i \in 0..3, j \in 0..3 :
                  result.data[4 * i + j + 1] =
                      IF i < 3 /\ j < 3 THEN arg.data[3 * i + j + 1]
                      ELSE IF i = j THEN 2 ELSE 0

\* a 3x3 list came back as a 4x4 array whose last row is 0, 0, 0, 1
C21_Witness ==
    /\ fn = "validate_transform4x4" /\ Succeeded
    /\ arg.kind = "list" /\ arg.shape = <<3, 3>>
    /\ result.shape = <<4, 4>>
    /\ result.data[1] = arg.data[1] /\ result.data[11] = arg.data[9]
    /\ <<result.data[13], result.data[14], result.data[15], result.data[16]>>
           = <<0, 0, 0, 2>>

\* the input is a list or an array of a shape the transform validator allows
ValidTransformShape ==
    /\ arg.kind \in {"list", "ndarray"}
    /\ arg.shape \in (IF fn = "validate_transform4x4"
                      THEN {<<3, 3>>, <<4, 4>>} ELSE {<<3, 3>>})

\* C22: a transform validator fails with TypeError, never with ValueError, on
\* every input that is neither a matrix object of a class it knows nor an
\* array-like of a valid shape; a real array-like of valid shape that meets
\* the validator's value constraint (finite elements for the 4x4 validator,
\* none for the 3x3 validator) is never rejected.
C22_TransformFailsWithTypeError ==
    (fn \in TransformValidators /\ pc = "done") =>
        /\ (arg.kind \notin native_classes(fn) /\ ~ValidTransformShape) =>
               Failed /\ error.type = "TypeError"
        /\ (/\ ValidTransformShape /\ cast_is_real(arg)
            /\ fn = "validate_transform4x4" => check_finite(arg.data))
           => Succeeded

\* a list of shape (4, 3): the ValueError of the shape check became a TypeError
C22_Witness ==
    /\ fn \in TransformValidators /\ Failed
    /\ arg.kind = "list" /\ arg.shape = <<4, 3>> /\ cast_is_real(arg)
    /\ error.type = "TypeError" /\ error.at = "transform"

\* the checks of validate_array in the order the specification gives
ClaimedChecks ==
    <<"dtype", "shape", "reshape", "broadcast", "length", "nonnegative",
      "finite", "integer", "range", "sorted">>

ClaimedIndex(step) ==
    CHOOSE i \in 1..Len(ClaimedChecks) : ClaimedChecks[i] = step

\* what the check of a step decides on the array the step is handed: the
\* cast input for the dtype and shape checks, the input for the length check,
\* array_out for the value checks
StepHolds(step) ==
    CASE step = "dtype" ->
            check_subdtype(cast_to_numpy(arg, FALSE).dtype,
                           Param(kwargs, "must_have_dtype"))
      [] step = "shape" ->
            check_shape(cast_to_numpy(arg, FALSE).shape,
                        Param(kwargs, "must_have_shape"))
      [] step = "length" -> LengthHolds(length_checked(arg, array_out))
      [] step = "nonnegative" -> check_nonnegative(array_out.data)
      [] step = "finite" -> check_finite(array_out.data)
      [] step = "integer" -> check_integer(array_out.data)
      [] step = "range" -> range_holds(array_out, kwargs)
      [] step = "sorted" -> check_sorted(array_out, Param(kwargs, "must_be_sorted"))
      [] OTHER -> TRUE

\* C23: validate_array runs its checks in the order dtype, shape, reshape,
\* broadcast, length, nonnegative, finite, integer-like, range, sorted, each
\* only when declared, and stops at the first that fails: the error comes from
\* a declared step whose check fails, every declared check before it in that
\* order holds, and a failing dtype check is reported as a TypeError.
C23_EarliestViolatedStepRaises ==
    (Failed /\ error.at \in Range(ClaimedChecks)) =>
        /\ Guard(error.at, kwargs, array_out)
        /\ ~(error.at \in {"reshape", "broadcast"}) => ~StepHolds(error.at)
        /\ \A i \in 1..(ClaimedIndex(error.at) - 1) :
               Guard(ClaimedChecks[i], kwargs, array_out)
                   => StepHolds(ClaimedChecks[i])
        /\ error.at = "dtype" => error.type = "TypeError"

\* a list of negative infinities that must be nonnegative and finite: the
\* nonnegative check raises
C23_Witness ==
    /\ Failed /\ error.at = "nonnegative"
    /\ Param(kwargs, "must_be_nonnegative") /\ Param(kwargs, "must_be_finite")
    /\ ~check_finite(array_out.data)

\* the call that ended repeats an earlier call without its dtype_out
WithoutDtypeOut == pc = "done" /\ prev.again = "uncast"

\* C24: the cast to dtype_out runs after every declared value check has
\* passed on the uncast values and no check runs on its result: the cast
\* raises nothing, and a call ends as the same call without dtype_out ends,
\* with the same error or with success.
C24_CastDoesNotChangeOutcome ==
    /\ error.at # "astype"
    /\ WithoutDtypeOut =>
           /\ error = prev.error
           /\ (result = NoResult) <=> (prev.result = NoResult)

\* -1, 0, 1 is sorted and was returned as the booleans True, False, True,
\* which are not sorted; the call without dtype_out succeeded as well
C24_Witness ==
    /\ WithoutDtypeOut /\ Succeeded
    /\ Param(kwargs, "must_be_sorted").on
    /\ prev.result.dtype = "bool"
    /\ ~check_sorted(prev.result, Param(kwargs, "must_be_sorted"))

\* C25: no statement of a call changes the caller's input: from the first
\* statement of a validator to its return or its exception, the input keeps
\* its values, its shape and its dtype, also when the array that is reshaped,
\* broadcast or cast is the caller's own object.
C25_InputUnchanged ==
    [][pc \notin {"idle", "done"} => arg' = arg]_vars

\* an array passed without copy and reshaped: the result is a view of the
\* caller's array with another shape
C25_Witness ==
    /\ Succeeded /\ arg.kind = "ndarray"
    /\ result.kind = "ndarray" /\ result.owner = "caller"
    /\ result.shape # arg.shape

\* the call that ended repeats the preceding call, same input and keywords
Repeated == pc = "done" /\ prev.again = "same"

\* no element is cast whose cast numpy leaves undefined (a non-finite value
\* cast to an integer type)
CastDefined ==
    ~(/\ Param(kwargs, "dtype_out") = "int"
      /\ \E v \in Range(arg.data) : v \in {PosInf, NegInf, NaN})

C27_BroadcastOnlyToAnotherShape ==
    /\ pc = "broadcast" =>
           /\ Param(kwargs, "broadcast_to") # None
           /\ array_out.shape # Dims(Param(kwargs, "broadcast_to"))
    /\ (Failed /\ error.at = "broadcast") =>
           /\ error.type = "ValueError"
           /\ ~broadcast_ok(array_out.shape, Dims(Param(kwargs, "broadcast_to")))
    /\ (Succeeded /\ result.kind = "ndarray" /\ ~result.writeable) =>
           /\ Param(kwargs, "broadcast_to") # None
           /\ result.shape = Dims(Param(kwargs, "broadcast_to"))

\* C28: whatever keywords are forwarded with it (reshape_to, broadcast_to,
\* dtype_out, to_list), a successful call of validate_data_range returns
\* exactly two values, the first not larger than the second.
C28_DataRangeResultIsOrdered ==
    (fn = "validate_data_range" /\ Succeeded) =>
        /\ Len(result.data) = 2
        /\ result.data[1] <= result.data[2]

\* C29: validate_axes raises its "cannot be parallel" error only when two of
\* the three vectors are parallel; three non-zero, pairwise non-parallel
\* vectors are not stopped by that check, whatever their lengths and dot
\* products.
C29_ParallelErrorOnlyForParallel ==
    (AxesBuilt /\ Failed /\ error.at = "axes_parallel") =>
        \/ ParallelRows(1, 2) \/ ParallelRows(1, 3) \/ ParallelRows(2, 3)

\* C30: the array a transform validator returns is always a new array, never
\* the caller's input.
C30_ResultIsNewArray ==
    (fn \in TransformValidators /\ Succeeded) => result.owner = "call"

\* C30 as amended: the returned array is the caller's own array exactly when
\* the input is an ndarray that already has the shape of the result (a 4x4
\* array for validate_transform4x4, a 3x3 array for validate_transform3x3);
\* for lists, matrix objects and a 3x3 array embedded into a 4x4 matrix it is
\* a new array.
C30_ResultIsInputOnlyWhenReturnedAsIs ==
    (fn \in TransformValidators /\ Succeeded) =>
        (result.owner = "caller"
            <=> (arg.kind = "ndarray" /\ arg.shape = result.shape))

\* validate_transform4x4 returned the 4x4 array it was given
C30_Witness ==
    /\ fn = "validate_transform4x4" /\ Succeeded
    /\ arg.kind = "ndarray" /\ arg.shape = <<4, 4>>
    /\ result.owner = "caller" /\ result.data = arg.data

====
